---------------------------- MODULE Spec2Model ----------------------------
(* A model of src/main.py: the research -> write -> render workflow of      *)
(* SimpleResearchAgent, the revision loop of main(), and the two rendering *)
(* passes of create_documents.  Text is modelled as a sequence of          *)
(* one-character strings, so that strip/split/startswith/slicing are       *)
(* computed as the code computes them.                                     *)
EXTENDS Naturals, Sequences, FiniteSets, TLC

VARIABLES
    pc,              \* position of main(): the node or prompt that runs next
    state,           \* the ResearchState threaded through the workflow
    run_calls,       \* external calls made by create_research_paper, in order
    edit_calls,      \* external calls made by the last edit_paper call, in order
    result,          \* what create_research_paper returned to main
    crp_exit,        \* how create_research_paper was left: none/return/raise
    current_result,  \* main's current_result
    make_changes,    \* main's last answer to the y/n prompt
    change_request,  \* main's last change_request input
    edit_result,     \* what the last edit_paper call returned
    edit_exit,       \* how the last edit_paper call was left
    edited_content,  \* edit_paper's local edited_content
    files,           \* the doc/ directory: the artifacts on storage
    clock,           \* the last second read by datetime.now()
    rounds,          \* edit_paper calls made so far
    content,         \* SpecRender: the content handed to create_documents
    doc,             \* SpecRender: the python-docx document body
    story,           \* SpecRender: the reportlab story
    rpc,             \* position inside create_documents or the parse round trip
    arg_topic,       \* SpecName: the topic handed to create_documents
    made_path,       \* SpecName: the document_path it builds
    parsed,          \* SpecParse: the blocks of the lines of content
    rebuilt,         \* SpecParse: the text rebuilt from blocks
    reparsed         \* SpecParse: the blocks of the lines of rebuilt

pipeVars == <<pc, state, run_calls, edit_calls, result, crp_exit, current_result,
              make_changes, change_request, edit_result, edit_exit, edited_content,
              files, clock, rounds>>
nameVars == <<arg_topic, made_path>>
parseVars == <<parsed, rebuilt, reparsed>>
renderVars == <<content, doc, story, rpc, nameVars, parseVars>>
vars == <<pipeVars, renderVars>>

-----------------------------------------------------------------------------
(* Bounds *)

\* longest content text of SpecRender
MaxLen == 7
\* edit_paper calls per session
MaxRounds == 2
\* seconds the clock may reach
MaxClock == 2
\* longest free part at the front of a topic of SpecName
MaxAffix == 2
\* how far the repeated part of a topic of SpecName goes past BaseLimit
MaxOver == 1

-----------------------------------------------------------------------------
(* Python str operations on sequences of characters *)

Whitespace == {" ", "\t", "\n", "\r"}

Min(a, b) == IF a < b THEN a ELSE b

\* s[n:]
Drop(s, n) == SubSeq(s, n + 1, Len(s))

\* s[:n]
Take(s, n) == SubSeq(s, 1, Min(n, Len(s)))

\* s.startswith(p)
StartsWith(s, p) == Len(s) >= Len(p) /\ SubSeq(s, 1, Len(p)) = p

RECURSIVE LStrip(_)
LStrip(s) == IF s # <<>> /\ Head(s) \in Whitespace THEN LStrip(Tail(s)) ELSE s

RECURSIVE RStrip(_)
RStrip(s) ==
    IF s # <<>> /\ s[Len(s)] \in Whitespace THEN RStrip(SubSeq(s, 1, Len(s) - 1)) ELSE s

\* s.strip()
Strip(s) == RStrip(LStrip(s))

\* index of the first "\n" of s, 0 when there is none
RECURSIVE FirstNewline(_, _)
FirstNewline(s, i) ==
    IF i > Len(s) THEN 0 ELSE IF s[i] = "\n" THEN i ELSE FirstNewline(s, i + 1)

\* s.split('\n'): always at least one line
RECURSIVE SplitLines(_)
SplitLines(s) ==
    LET i == FirstNewline(s, 1) IN
    IF i = 0 THEN <<s>> ELSE <<SubSeq(s, 1, i - 1)>> \o SplitLines(Drop(s, i))

\* needle in haystack
Contains(haystack, needle) ==
    \E i \in 0..(Len(haystack) - Len(needle)) :
        SubSeq(haystack, i + 1, i + Len(needle)) = needle

RECURSIVE Flatten(_)
Flatten(ss) == IF ss = <<>> THEN <<>> ELSE Head(ss) \o Flatten(Tail(ss))

-----------------------------------------------------------------------------
(* create_documents: the two passes over content.split('\n') *)

H1 == <<"#", " ">>
H2 == <<"#", "#", " ">>
H3 == <<"#", "#", "#", " ">>
H4 == <<"#", "#", "#", "#", " ">>

DocxHeading(text, level, alignment) ==
    [el |-> "heading", level |-> level, text |-> text, alignment |-> alignment]
DocxParagraph(text) ==
    [el |-> "paragraph", level |-> 0, text |-> text, alignment |-> "default"]

\* one iteration of the Word loop: what the line adds to the document
WordLine_HashParagraph(raw) ==
    LET line == Strip(raw) IN
    IF line = <<>> THEN <<>>
    ELSE IF StartsWith(line, H1) THEN <<DocxHeading(Drop(line, 2), 1, "CENTER")>>
    ELSE IF StartsWith(line, H2) THEN <<DocxHeading(Drop(line, 3), 2, "default")>>
    ELSE IF StartsWith(line, H3) THEN <<DocxHeading(Drop(line, 4), 3, "default")>>
    ELSE IF StartsWith(line, H4) THEN <<DocxHeading(Drop(line, 5), 4, "default")>>
    ELSE <<DocxParagraph(line)>>

WordLine_ShortSlice(raw) ==
    LET line == Strip(raw) IN
    IF line = <<>> THEN <<>>
    ELSE IF StartsWith(line, H1) THEN <<DocxHeading(Drop(line, 2), 1, "CENTER")>>
    ELSE IF StartsWith(line, H2) THEN <<DocxHeading(Drop(line, 2), 2, "default")>>
    ELSE IF StartsWith(line, H3) THEN <<DocxHeading(Drop(line, 4), 3, "default")>>
    ELSE IF StartsWith(line, H4) THEN <<DocxHeading(Drop(line, 5), 4, "default")>>
    ELSE IF line # <<>> /\ ~StartsWith(line, <<"#">>) THEN <<DocxParagraph(line)>>
    ELSE <<>>

WordLine(raw) ==
    LET line == Strip(raw) IN
    IF line = <<>> THEN <<>>
    ELSE IF StartsWith(line, H1) THEN <<DocxHeading(Drop(line, 2), 1, "CENTER")>>
    ELSE IF StartsWith(line, H2) THEN <<DocxHeading(Drop(line, 3), 2, "default")>>
    ELSE IF StartsWith(line, H3) THEN <<DocxHeading(Drop(line, 4), 3, "default")>>
    ELSE IF StartsWith(line, H4) THEN <<DocxHeading(Drop(line, 5), 4, "default")>>
    ELSE IF line # <<>> /\ ~StartsWith(line, <<"#">>) THEN <<DocxParagraph(line)>>
    ELSE <<>>

WordPass(text) ==
    LET lines == SplitLines(text) IN
    Flatten([i \in 1..Len(lines) |-> WordLine(lines[i])])

PdfParagraph(text, style) == [el |-> "Paragraph", style |-> style, text |-> text, height |-> 0]
PdfSpacer(height) == [el |-> "Spacer", style |-> "none", text |-> <<>>, height |-> height]

\* one iteration of the PDF loop: what the line appends to the story
PdfLine(raw) ==
    LET line == Strip(raw) IN
    IF line = <<>> THEN <<PdfSpacer(12)>>
    ELSE IF StartsWith(line, H1) THEN <<PdfParagraph(Drop(line, 2), "CustomTitle")>>
    ELSE IF StartsWith(line, H2) THEN <<PdfParagraph(Drop(line, 3), "Heading2")>>
    ELSE IF StartsWith(line, H3) THEN <<PdfParagraph(Drop(line, 4), "Heading3")>>
    ELSE IF line # <<>> /\ ~StartsWith(line, <<"#">>)
         THEN <<PdfParagraph(line, "Normal"), PdfSpacer(6)>>
    ELSE <<>>

PdfPass(text) ==
    LET lines == SplitLines(text) IN
    Flatten([i \in 1..Len(lines) |-> PdfLine(lines[i])])

-----------------------------------------------------------------------------
(* create_documents: file name, artifacts and the two exception handlers *)

Letters == {"a", "b", "c", "d", "e", "f", "g", "h", "i", "j", "k", "l", "m",
            "n", "o", "p", "q", "r", "s", "t", "u", "v", "w", "x", "y", "z",
            "A", "B", "C", "D", "E", "F", "G", "H", "I", "J", "K", "L", "M",
            "N", "O", "P", "Q", "R", "S", "T", "U", "V", "W", "X", "Y", "Z"}
Digits == {"0", "1", "2", "3", "4", "5", "6", "7", "8", "9"}

\* c.isalnum()
IsAlnum(c) == c \in Letters \cup Digits

\* "".join(c if c.isalnum() or c in (' ', '-', '_') else '' for c in topic)
RECURSIVE KeepSafe(_)
KeepSafe(s) ==
    IF s = <<>> THEN <<>>
    ELSE IF IsAlnum(Head(s)) \/ Head(s) \in {" ", "-", "_"}
         THEN <<Head(s)>> \o KeepSafe(Tail(s))
         ELSE KeepSafe(Tail(s))

\* s.replace(' ', '_')
ReplaceSpaces(s) == [i \in 1..Len(s) |-> IF s[i] = " " THEN "_" ELSE s[i]]

BaseLimit == 30

SafeTopic_NoLimit(topic) == ReplaceSpaces(KeepSafe(topic))

SafeTopic(topic) == Take(ReplaceSpaces(KeepSafe(topic)), BaseLimit)

\* os.path.join(doc_dir, f"research_paper_{safe_topic}_{timestamp}.docx")
DocxPath(topic, t) ==
    [kind |-> "path", dir |-> "doc", prefix |-> "research_paper_",
     base |-> SafeTopic(topic), timestamp |-> t, ext |-> ".docx"]

\* document_path.replace('.docx', '.pdf')
PdfPathOf(document_path) == [document_path EXCEPT !.ext = ".pdf"]

ErrorDescriptor(what, e) == [kind |-> "error", what |-> what, e |-> e]

IsErrorDescriptor(p) == p.kind = "error"

\* str(e) of what the search client can raise
ErrMsgs == {<<>>, <<"4", "0", "1">>}

\* str(e) of what python-docx, reportlab and the file system can raise
DocErrors == {<<"d", "e", "n", "i", "e", "d">>}

\* str(e) of what llm.invoke can raise
LlmErrors == {<<"4", "2", "9">>}

\* how one call of create_documents can go: both files written, the Word
\* part raises (makedirs, add_heading, save), or only the PDF part raises
DocOutcomes ==
    {[kind |-> "ok", e |-> <<>>]}
        \cup {[kind |-> k, e |-> e] : k \in {"docx_fail", "pdf_fail"}, e \in DocErrors}

\* create_documents(content, topic) at second t with outcome o: the returned
\* dict and the files it wrote
CreateDocuments_NoInnerTry(text, topic, t, o) ==
    LET document_path == DocxPath(topic, t)
        pdf_path == PdfPathOf(document_path)
        docx == [path |-> document_path, body |-> WordPass(text)]
        pdf == [path |-> pdf_path, body |-> PdfPass(text)]
    IN  IF o.kind = "ok"
        THEN [document_path |-> document_path, pdf_path |-> pdf_path, wrote |-> {docx, pdf}]
        ELSE [document_path |-> ErrorDescriptor("Document creation failed", o.e),
              pdf_path |-> ErrorDescriptor("PDF creation failed", o.e),
              wrote |-> IF o.kind = "pdf_fail" THEN {docx} ELSE {}]

CreateDocuments(text, topic, t, o) ==
    LET document_path == DocxPath(topic, t)
        pdf_path == PdfPathOf(document_path)
        docx == [path |-> document_path, body |-> WordPass(text)]
        pdf == [path |-> pdf_path, body |-> PdfPass(text)]
    IN  IF o.kind = "docx_fail"
        THEN [document_path |-> ErrorDescriptor("Document creation failed", o.e),
              pdf_path |-> ErrorDescriptor("PDF creation failed", o.e),
              wrote |-> {}]
        ELSE IF o.kind = "pdf_fail"
        THEN [document_path |-> document_path,
              pdf_path |-> ErrorDescriptor("PDF creation failed", o.e),
              wrote |-> {docx}]
        ELSE [document_path |-> document_path, pdf_path |-> pdf_path,
              wrote |-> {docx, pdf}]

\* writing a file replaces whatever was stored under its path
Store(fs, wrote) ==
    {f \in fs : \A w \in wrote : w.path # f.path} \cup wrote

-----------------------------------------------------------------------------
(* research_with_tavily *)

ExcerptLimit == 600

RECURSIVE IntStr(_)
IntStr(n) ==
    LET d == <<"0", "1", "2", "3", "4", "5", "6", "7", "8", "9">>[(n % 10) + 1] IN
    IF n < 10 THEN <<d>> ELSE IntStr(n \div 10) \o <<d>>

\* the three lines appended for the i-th result
FormatResult(i, r) ==
    IntStr(i) \o <<".", " ", "*", "*">> \o r.title \o <<"*", "*", "\n">>
        \o <<" ", " ", " ", "C", "o", "n", "t", "e", "n", "t", ":", " ">>
        \o Take(r.content, ExcerptLimit) \o <<".", ".", ".", "\n">>
        \o <<" ", " ", " ", "S", "o", "u", "r", "c", "e", ":", " ">>
        \o r.url \o <<"\n", "\n">>

FormatResults(topic, results) ==
    <<"R", "e", "s", "e", "a", "r", "c", "h", " ", "R", "e", "s", "u", "l", "t", "s",
      " ", "f", "o", "r", " ", "'">> \o topic \o <<"'", ":", "\n", "\n">>
        \o Flatten([i \in 1..Len(results) |-> FormatResult(i, results[i])])

\* f"Research failed: {str(e)}. Using AI knowledge instead."
Fallback(e) ==
    <<"R", "e", "s", "e", "a", "r", "c", "h", " ", "f", "a", "i", "l", "e", "d", ":", " ">>
        \o e
        \o <<".", " ", "U", "s", "i", "n", "g", " ", "A", "I", " ", "k", "n", "o", "w",
             "l", "e", "d", "g", "e", " ", "i", "n", "s", "t", "e", "a", "d", ".">>

SearchResult == [title |-> <<"T">>, content |-> <<"c", "d">>, url |-> <<"u">>]

\* the 'results' list of a search response
SearchResponses == {<<>>, <<SearchResult>>}

\* how the search can go: a response, or an exception carrying e
TavilyOutcomes ==
    {[ok |-> TRUE, results |-> rs, e |-> <<>>] : rs \in SearchResponses}
        \cup {[ok |-> FALSE, results |-> <<>>, e |-> e] : e \in ErrMsgs}

\* research_with_tavily(topic) under outcome o: the returned text, or the
\* exception that leaves the function
ResearchWithTavily_NoCatch(topic, o) ==
    IF o.ok THEN [raised |-> FALSE, value |-> FormatResults(topic, o.results)]
    ELSE [raised |-> TRUE, value |-> o.e]

ResearchWithTavily(topic, o) ==
    IF o.ok THEN [raised |-> FALSE, value |-> FormatResults(topic, o.results)]
    ELSE [raised |-> FALSE, value |-> Fallback(o.e)]

-----------------------------------------------------------------------------
(* The inputs of a session *)

\* what the user can type at "Enter your research topic", stripped
Topics == {<<"a", "i">>, <<"b", " ", "!">>}

\* what the generative service can return as response.content
Papers == {<<"#", " ", "T", "\n", "\n", "p">>, <<"#", "#", "#", "#", " ", "X">>}

\* how one llm.invoke can go: a text, or an exception carrying e
LlmOutcomes ==
    {[ok |-> TRUE, text |-> p, e |-> <<>>] : p \in Papers}
        \cup {[ok |-> FALSE, text |-> <<>>, e |-> e] : e \in LlmErrors}

\* what the user can type at "Describe the changes", stripped
ChangeRequests == {<<>>, <<"f", "i", "x">>}

-----------------------------------------------------------------------------
(* SimpleResearchAgent: the workflow and create_research_paper *)

\* the edges added by _create_workflow
Edge_SkipDocs ==
    [START |-> "research", research |-> "write", write |-> "END",
     create_docs |-> "END"]

Edge_SkipWrite ==
    [START |-> "research", research |-> "create_docs", write |-> "create_docs",
     create_docs |-> "END"]

Edge ==
    [START |-> "research", research |-> "write", write |-> "create_docs",
     create_docs |-> "END"]

\* initial_state of create_research_paper
InitialState(topic) ==
    [messages |-> <<>>, topic |-> topic, research_data |-> <<>>, paper_content |-> <<>>,
     document_path |-> <<>>, pdf_path |-> <<>>, step |-> "start"]

\* the f-string prompts, by the values they embed
WritingPrompt(topic, research_data) ==
    [template |-> "write", topic |-> topic, research_data |-> research_data]
EditingPrompt(request, current_content) ==
    [template |-> "edit", change_request |-> request, current_content |-> current_content]

\* d.get(key, default)
Get(d, key, default) == IF key \in DOMAIN d THEN d[key] ELSE default

Call(svc, arg, outcome) == [svc |-> svc, arg |-> arg, outcome |-> outcome]

\* the dict create_research_paper returns from its try block
CrpReturn(topic, final_state) ==
    [topic |-> topic,
     document_path |-> final_state.document_path,
     pdf_path |-> final_state.pdf_path,
     paper_content |-> final_state.paper_content,
     status |-> IF final_state.step = "documents_complete" THEN "completed" ELSE "partial"]

\* an exception e raised by a node leaves app.invoke and reaches the except
\* clause of create_research_paper, which returns the failed dict to main
CrpExcept(e) ==
    /\ result' = [topic |-> state.topic, error |-> e, status |-> "failed"]
    /\ crp_exit' = "return"
    /\ pc' = "report"

sessionVars == <<current_result, make_changes, change_request, edit_result, edit_exit,
                 edited_content, edit_calls, rounds>>

ResearchNode ==
    /\ pc = "research"
    /\ \E o \in TavilyOutcomes :
        LET r == ResearchWithTavily(state.topic, o) IN
        /\ run_calls' = Append(run_calls,
                               Call("tavily", state.topic, IF o.ok THEN "ok" ELSE "fail"))
        /\ IF r.raised
           THEN CrpExcept(r.value) /\ UNCHANGED state
           ELSE /\ state' = [state EXCEPT !.research_data = r.value,
                                          !.step = "research_complete"]
                /\ pc' = Edge["research"]
                /\ UNCHANGED <<result, crp_exit>>
    /\ UNCHANGED <<sessionVars, files, clock, renderVars>>

WriteNode_Swallow ==
    /\ pc = "write"
    /\ \E o \in LlmOutcomes :
        /\ run_calls' = Append(run_calls,
                               Call("llm", WritingPrompt(state.topic, state.research_data),
                                    IF o.ok THEN "ok" ELSE "fail"))
        /\ state' = [state EXCEPT !.paper_content = o.text, !.step = "writing_complete"]
        /\ pc' = Edge["write"]
        /\ UNCHANGED <<result, crp_exit>>
    /\ UNCHANGED <<sessionVars, files, clock, renderVars>>

WriteNode ==
    /\ pc = "write"
    /\ \E o \in LlmOutcomes :
        /\ run_calls' = Append(run_calls,
                               Call("llm", WritingPrompt(state.topic, state.research_data),
                                    IF o.ok THEN "ok" ELSE "fail"))
        /\ IF o.ok
           THEN /\ state' = [state EXCEPT !.paper_content = o.text,
                                          !.step = "writing_complete"]
                /\ pc' = Edge["write"]
                /\ UNCHANGED <<result, crp_exit>>
           ELSE CrpExcept(o.e) /\ UNCHANGED state
    /\ UNCHANGED <<sessionVars, files, clock, renderVars>>

CreateDocsNode ==
    /\ pc = "create_docs"
    /\ \E o \in DocOutcomes, t \in clock..MaxClock :
        LET doc_results == CreateDocuments(state.paper_content, state.topic, t, o) IN
        /\ run_calls' = Append(run_calls,
                               Call("render", [content |-> state.paper_content,
                                               topic |-> state.topic], o.kind))
        /\ state' = [state EXCEPT !.document_path = doc_results.document_path,
                                  !.pdf_path = doc_results.pdf_path,
                                  !.step = "documents_complete"]
        /\ files' = Store(files, doc_results.wrote)
        /\ clock' = t
    /\ pc' = Edge["create_docs"]
    /\ UNCHANGED <<result, crp_exit, sessionVars, renderVars>>

\* app.invoke returned final_state: create_research_paper returns its dict
ReturnResult ==
    /\ pc = "END"
    /\ result' = CrpReturn(state.topic, state)
    /\ crp_exit' = "return"
    /\ pc' = "report"
    /\ UNCHANGED <<state, run_calls, sessionVars, files, clock, renderVars>>

-----------------------------------------------------------------------------
(* main: the report and the revision loop *)

\* `if change_request:`
Accepts_Any(request) == TRUE

Accepts(request) == request # <<>>

MainReport_AlwaysLoop ==
    /\ pc = "report"
    /\ current_result' = result
    /\ pc' = "ask"
    /\ UNCHANGED <<state, run_calls, result, crp_exit, make_changes, change_request,
                   edit_result, edit_exit, edited_content, edit_calls, rounds,
                   files, clock, renderVars>>

MainReport ==
    /\ pc = "report"
    /\ IF crp_exit = "return" /\ result.status = "completed"
       THEN current_result' = result /\ pc' = "ask"
       ELSE UNCHANGED current_result /\ pc' = "done"
    /\ UNCHANGED <<state, run_calls, result, crp_exit, make_changes, change_request,
                   edit_result, edit_exit, edited_content, edit_calls, rounds,
                   files, clock, renderVars>>

Ask ==
    /\ pc = "ask"
    /\ \/ make_changes' = "y" /\ pc' = "change"
       \/ make_changes' = "n" /\ pc' = "done"
       \/ make_changes' = "other" /\ pc' = "ask"
    /\ UNCHANGED <<state, run_calls, result, crp_exit, current_result, change_request,
                   edit_result, edit_exit, edited_content, edit_calls, rounds,
                   files, clock, renderVars>>

ChangeRequest_EmptyExits ==
    /\ pc = "change"
    /\ \E request \in ChangeRequests :
        /\ change_request' = request
        /\ IF Accepts(request)
           THEN /\ rounds < MaxRounds
                /\ rounds' = rounds + 1
                /\ edit_calls' = <<>>
                /\ edit_exit' = "none"
                /\ pc' = "edit_llm"
           ELSE /\ pc' = "done"
                /\ UNCHANGED <<rounds, edit_calls, edit_exit>>
    /\ UNCHANGED <<state, run_calls, result, crp_exit, current_result, make_changes,
                   edit_result, edited_content, files, clock, renderVars>>

ChangeRequest ==
    /\ pc = "change"
    /\ \E request \in ChangeRequests :
        /\ change_request' = request
        /\ IF Accepts(request)
           THEN /\ rounds < MaxRounds
                /\ rounds' = rounds + 1
                /\ edit_calls' = <<>>
                /\ edit_exit' = "none"
                /\ pc' = "edit_llm"
           ELSE /\ pc' = "ask"
                /\ UNCHANGED <<rounds, edit_calls, edit_exit>>
    /\ UNCHANGED <<state, run_calls, result, crp_exit, current_result, make_changes,
                   edit_result, edited_content, files, clock, renderVars>>

\* edit_paper up to llm.invoke; an exception leaves edit_paper and is caught
\* by main, which prints it and prompts again
EditGenerate_Research ==
    /\ pc = "edit_llm"
    /\ \E o \in LlmOutcomes :
        /\ edit_calls' = Append(Append(edit_calls, Call("tavily", Get(current_result, "topic", <<>>), "ok")),
                                Call("llm", EditingPrompt(change_request,
                                                          Get(current_result, "paper_content", <<>>)),
                                     IF o.ok THEN "ok" ELSE "fail"))
        /\ IF o.ok
           THEN /\ edited_content' = o.text
                /\ pc' = "edit_docs"
                /\ UNCHANGED edit_exit
           ELSE /\ edit_exit' = "raise"
                /\ pc' = "ask"
                /\ UNCHANGED edited_content
    /\ UNCHANGED <<state, run_calls, result, crp_exit, current_result, make_changes,
                   change_request, edit_result, rounds, files, clock, renderVars>>

EditGenerate_Clobber ==
    /\ pc = "edit_llm"
    /\ \E o \in LlmOutcomes :
        /\ edit_calls' = Append(edit_calls,
                                Call("llm", EditingPrompt(change_request,
                                                          Get(current_result, "paper_content", <<>>)),
                                     IF o.ok THEN "ok" ELSE "fail"))
        /\ IF o.ok
           THEN /\ edited_content' = o.text
                /\ pc' = "edit_docs"
                /\ UNCHANGED edit_exit
           ELSE /\ edit_exit' = "raise"
                /\ pc' = "ask"
                /\ UNCHANGED edited_content
    /\ current_result' = IF pc' = "ask"
                         THEN [current_result EXCEPT !.paper_content = <<>>]
                         ELSE current_result
    /\ UNCHANGED <<state, run_calls, result, crp_exit, make_changes,
                   change_request, edit_result, rounds, files, clock, renderVars>>

EditGenerate ==
    /\ pc = "edit_llm"
    /\ \E o \in LlmOutcomes :
        /\ edit_calls' = Append(edit_calls,
                                Call("llm", EditingPrompt(change_request,
                                                          Get(current_result, "paper_content", <<>>)),
                                     IF o.ok THEN "ok" ELSE "fail"))
        /\ IF o.ok
           THEN /\ edited_content' = o.text
                /\ pc' = "edit_docs"
                /\ UNCHANGED edit_exit
           ELSE /\ edit_exit' = "raise"
                /\ pc' = "ask"
                /\ UNCHANGED edited_content
    /\ UNCHANGED <<state, run_calls, result, crp_exit, current_result, make_changes,
                   change_request, edit_result, rounds, files, clock, renderVars>>

\* the rest of edit_paper, and main taking over its result
EditRender_KeepPaths ==
    /\ pc = "edit_docs"
    /\ \E o \in DocOutcomes, t \in clock..MaxClock :
        LET topic == Get(current_result, "topic", <<>>)
            doc_results == CreateDocuments(edited_content, topic, t, o)
        IN
        /\ edit_calls' = Append(edit_calls,
                                Call("render", [content |-> edited_content, topic |-> topic],
                                     o.kind))
        /\ edit_result' = [topic |-> topic,
                           document_path |-> doc_results.document_path,
                           pdf_path |-> doc_results.pdf_path,
                           paper_content |-> edited_content,
                           status |-> "completed"]
        /\ files' = Store(files, doc_results.wrote)
        /\ clock' = t
    /\ edit_exit' = "return"
    /\ current_result' = [current_result EXCEPT !.paper_content = edited_content]
    /\ pc' = "ask"
    /\ UNCHANGED <<state, run_calls, result, crp_exit, make_changes, change_request,
                   edited_content, rounds, renderVars>>

EditRender ==
    /\ pc = "edit_docs"
    /\ \E o \in DocOutcomes, t \in clock..MaxClock :
        LET topic == Get(current_result, "topic", <<>>)
            doc_results == CreateDocuments(edited_content, topic, t, o)
        IN
        /\ edit_calls' = Append(edit_calls,
                                Call("render", [content |-> edited_content, topic |-> topic],
                                     o.kind))
        /\ edit_result' = [topic |-> topic,
                           document_path |-> doc_results.document_path,
                           pdf_path |-> doc_results.pdf_path,
                           paper_content |-> edited_content,
                           status |-> "completed"]
        /\ files' = Store(files, doc_results.wrote)
        /\ clock' = t
    /\ edit_exit' = "return"
    /\ current_result' = IF edit_result'.status = "completed"
                         THEN edit_result' ELSE current_result
    /\ pc' = "ask"
    /\ UNCHANGED <<state, run_calls, result, crp_exit, make_changes, change_request,
                   edited_content, rounds, renderVars>>

-----------------------------------------------------------------------------
(* The session: main() from the topic prompt on *)

NoResult == [status |-> "none"]

NameIdle == arg_topic = <<>> /\ made_path = <<>>

ParseIdle == parsed = <<>> /\ rebuilt = <<>> /\ reparsed = <<>>

RenderIdle ==
    content = <<>> /\ doc = <<>> /\ story = <<>> /\ rpc = "idle" /\ NameIdle /\ ParseIdle

Init ==
    /\ \E topic \in Topics : state = InitialState(topic)
    /\ pc = Edge["START"]
    /\ run_calls = <<>>
    /\ edit_calls = <<>>
    /\ result = NoResult
    /\ crp_exit = "none"
    /\ current_result = NoResult
    /\ make_changes = "none"
    /\ change_request = <<>>
    /\ edit_result = NoResult
    /\ edit_exit = "none"
    /\ edited_content = <<>>
    /\ files = {}
    /\ clock = 0
    /\ rounds = 0
    /\ RenderIdle

Next ==
    \/ ResearchNode
    \/ WriteNode
    \/ CreateDocsNode
    \/ ReturnResult
    \/ MainReport
    \/ Ask
    \/ ChangeRequest
    \/ EditGenerate
    \/ EditRender

Spec == Init /\ [][Next]_vars

\* the places control can be at: the nodes of the graph, the return of
\* create_research_paper, and the statements of main's loop
Positions ==
    {"research", "write", "create_docs", "END", "report", "ask", "change",
     "edit_llm", "edit_docs", "done"}

\* control moves on from position p: the call or statement there returns
Leaves(p) == pc = p /\ pc' \in Positions \ {p}

\* the program is sequential and every call returns, so control moves on
\* from every position but the y/n prompt, which may be answered with
\* anything any number of times; the user, asked again and again,
\* eventually answers 'n'
SpecFair ==
    /\ Spec
    /\ \A p \in Positions \ {"ask", "done"} : WF_pc(Leaves(p))
    /\ SF_vars(Ask /\ make_changes' = "n")

-----------------------------------------------------------------------------
(* create_documents alone, over every content text up to MaxLen characters *)

Alphabet == {"#", " ", "X", "\n"}

Texts == UNION {[1..n -> Alphabet] : n \in 0..MaxLen}

PipeIdle ==
    /\ pc = "idle"
    /\ state = InitialState(<<>>)
    /\ run_calls = <<>>
    /\ edit_calls = <<>>
    /\ result = NoResult
    /\ crp_exit = "none"
    /\ current_result = NoResult
    /\ make_changes = "none"
    /\ change_request = <<>>
    /\ edit_result = NoResult
    /\ edit_exit = "none"
    /\ edited_content = <<>>
    /\ files = {}
    /\ clock = 0
    /\ rounds = 0

InitRender ==
    /\ content \in Texts
    /\ doc = <<>>
    /\ story = <<>>
    /\ rpc = "word"
    /\ NameIdle
    /\ ParseIdle
    /\ PipeIdle

\* the Word loop of create_documents
RenderWord ==
    /\ rpc = "word"
    /\ doc' = WordPass(content)
    /\ rpc' = "pdf"
    /\ UNCHANGED <<content, story, pipeVars, nameVars, parseVars>>

\* the PDF loop of create_documents
RenderPdf ==
    /\ rpc = "pdf"
    /\ story' = PdfPass(content)
    /\ rpc' = "done"
    /\ UNCHANGED <<content, doc, pipeVars, nameVars, parseVars>>

NextRender == RenderWord \/ RenderPdf

SpecRender == InitRender /\ [][NextRender]_vars

-----------------------------------------------------------------------------
(* Properties of the workflow, stated for Spec *)

Rank(step) ==
    CASE step = "start" -> 0
      [] step = "research_complete" -> 1
      [] step = "writing_complete" -> 2
      [] step = "documents_complete" -> 3

Stages == <<"tavily", "llm", "render">>

\* the services create_research_paper has called, in call order
StagesRun == [i \in 1..Len(run_calls) |-> run_calls[i].svc]

\* calls of create_research_paper that raised out of their node
RaisedInRun == {i \in 1..Len(run_calls) : run_calls[i].svc = "llm" /\ run_calls[i].outcome = "fail"}

\* C1: the stage marker moves start -> research_complete -> writing_complete
\* -> documents_complete one step at a time and never back, and the research,
\* write and render stages run in that order, each at most once, the marker
\* counting exactly the stages that have completed.
C1_StagesInOrder ==
    /\ [][state.step' # state.step => Rank(state.step') = Rank(state.step) + 1]_vars
    /\ [](/\ Len(run_calls) <= 3
          /\ StagesRun = SubSeq(Stages, 1, Len(run_calls))
          /\ Rank(state.step) = Len(run_calls) - Cardinality(RaisedInRun))

C1_Witness == state.step = "documents_complete" /\ pc = "report" /\ Len(run_calls) = 3

GenFailedInRun ==
    \E i \in 1..Len(run_calls) : run_calls[i].svc = "llm" /\ run_calls[i].outcome = "fail"

\* C2: when the generator call of the write stage fails, the render stage is
\* never executed and no artifact is written, create_research_paper is left by
\* a return and not by an exception, and the returned dict has status "failed"
\* and carries the error message of the failure.
C2_GenerationFailureStopsRun ==
    GenFailedInRun =>
        /\ \A i \in 1..Len(run_calls) : run_calls[i].svc # "render"
        /\ files = {}
        /\ state.step = "research_complete"
        /\ crp_exit = "return"
        /\ result.status = "failed"
        /\ result.error \in LlmErrors
        /\ pc \in {"report", "done"}

C2_Witness == GenFailedInRun /\ pc = "done"

PrimaryFailedInRun ==
    \E i \in 1..Len(run_calls) : run_calls[i].svc = "render" /\ run_calls[i].outcome = "docx_fail"

\* C3: when producing the primary (Word) artifact fails in the render stage,
\* both artifact fields are error descriptors, the stage marker does not reach
\* documents_complete and the returned status is not "completed".
C3_PrimaryFailureFailsRun ==
    PrimaryFailedInRun =>
        /\ IsErrorDescriptor(state.document_path)
        /\ IsErrorDescriptor(state.pdf_path)
        /\ state.step # "documents_complete"
        /\ crp_exit = "return" => result.status # "completed"

SecondaryFailedInRun ==
    \E i \in 1..Len(run_calls) : run_calls[i].svc = "render" /\ run_calls[i].outcome = "pdf_fail"

\* C4: when only the PDF emitter fails, pdf_path alone is an error descriptor,
\* document_path is the path of a Word artifact that is on storage, the marker
\* is documents_complete and create_research_paper returns status "completed"
\* with these two fields.
C4_SecondaryFailureCompletes ==
    SecondaryFailedInRun =>
        /\ IsErrorDescriptor(state.pdf_path)
        /\ ~IsErrorDescriptor(state.document_path)
        /\ state.document_path.ext = ".docx"
        /\ \E f \in files : f.path = state.document_path
        /\ state.step = "documents_complete"
        /\ crp_exit # "raise"
        /\ crp_exit = "return" =>
            /\ result.status = "completed"
            /\ result.document_path = state.document_path
            /\ result.pdf_path = state.pdf_path

C4_Witness == SecondaryFailedInRun /\ pc = "ask" /\ current_result.status = "completed"

CollectorFailed ==
    run_calls # <<>> /\ run_calls[1].svc = "tavily" /\ run_calls[1].outcome = "fail"

\* C5: a failure of the search never fails the run: research_with_tavily
\* returns the fallback text, the marker moves to research_complete, a failed
\* status can only come from a failed generator call, and when generation and
\* rendering succeed the run returns status "completed" at documents_complete.
C5_CollectorFailureTolerated ==
    CollectorFailed =>
        /\ Rank(state.step) >= 1
        /\ \E e \in ErrMsgs : state.research_data = Fallback(e)
        /\ crp_exit # "raise"
        /\ crp_exit = "return" =>
            /\ result.status = "failed" => GenFailedInRun
            /\ (Len(run_calls) = 3 /\ run_calls[2].outcome = "ok" /\ run_calls[3].outcome = "ok")
                => result.status = "completed" /\ state.step = "documents_complete"

C5_Witness ==
    /\ CollectorFailed
    /\ Len(run_calls) = 3 /\ run_calls[3].outcome = "ok"
    /\ crp_exit = "return" /\ result.status = "completed"

\* C6: when the search fails, the research_data handed to the write stage is
\* non-empty and contains the topic text.
C6_FallbackContainsTopic ==
    (CollectorFailed /\ pc = "write") =>
        /\ state.research_data # <<>>
        /\ Contains(state.research_data, state.topic)

\* C7: an empty change request is rejected: the step that reads it goes back
\* to the y/n prompt without calling the generator or the renderer and leaves
\* the held result, the artifacts on storage and the edit results unchanged;
\* no generator call ever carries an empty change request.
C7_EmptyRequestRejected ==
    /\ [][(pc = "change" /\ change_request' = <<>>) =>
            /\ pc' = "ask"
            /\ UNCHANGED <<current_result, edit_calls, files, edit_result, edit_exit,
                           edited_content, rounds, clock>>]_vars
    /\ [](\A i \in 1..Len(edit_calls) :
            edit_calls[i].svc = "llm" => edit_calls[i].arg.change_request # <<>>)

C7_Witness ==
    /\ pc = "ask" /\ make_changes = "y" /\ change_request = <<>>
    /\ rounds = 1 /\ current_result.status = "completed"

EditGenFailed ==
    /\ edit_calls # <<>>
    /\ edit_calls[Len(edit_calls)].svc = "llm"
    /\ edit_calls[Len(edit_calls)].outcome = "fail"

\* C8: when the generator call of a revision round fails, edit_paper is left
\* by a return whose dict has a failed status and an error message, not by an
\* exception.
C8_EditFailureReturned ==
    EditGenFailed =>
        /\ edit_exit = "return"
        /\ edit_result.status = "failed"
        /\ "error" \in DOMAIN edit_result

-----------------------------------------------------------------------------
(* Properties of the two rendering passes, stated for SpecRender *)

Block(kind, level, text) == [kind |-> kind, level |-> level, text |-> text]

\* the heading and paragraph blocks of the Word document, in order
DocxBlocks(d) == [i \in 1..Len(d) |-> Block(d[i].el, d[i].level, d[i].text)]

StyleLevel(style) ==
    CASE style = "CustomTitle" -> 1
      [] style = "Heading2" -> 2
      [] style = "Heading3" -> 3
      [] OTHER -> 0

RECURSIVE PdfBlocks(_)
\* the heading and paragraph blocks of the PDF story, in order, spacers aside
PdfBlocks(st) ==
    IF st = <<>> THEN <<>>
    ELSE IF Head(st).el = "Spacer" THEN PdfBlocks(Tail(st))
    ELSE <<Block(IF Head(st).style = "Normal" THEN "paragraph" ELSE "heading",
                 StyleLevel(Head(st).style), Head(st).text)>> \o PdfBlocks(Tail(st))

\* C9: the ordered heading (level, text) and paragraph blocks of the Word
\* document equal those of the PDF story, spacers aside.
C9_StructuralParity ==
    rpc = "done" => DocxBlocks(doc) = PdfBlocks(story)

RECURSIVE HashCount(_)
\* the number of '#' characters a line begins with
HashCount(line) ==
    IF line # <<>> /\ Head(line) = "#" THEN 1 + HashCount(Tail(line)) ELSE 0

\* the heading a trimmed line stands for by the boundary rule: exactly
\* n '#' (n in 1..4) and then a space
MarkedHeading(line) ==
    LET n == HashCount(line) IN
    IF n \in 1..4 /\ Len(line) > n /\ line[n + 1] = " "
    THEN <<Block("heading", n, Drop(line, n + 1))>>
    ELSE <<>>

MarkedHeadings(text) ==
    LET lines == SplitLines(text) IN
    Flatten([i \in 1..Len(lines) |-> MarkedHeading(Strip(lines[i]))])

RECURSIVE HeadingsOf(_)
HeadingsOf(blocks) ==
    IF blocks = <<>> THEN <<>>
    ELSE IF Head(blocks).kind = "heading" THEN <<Head(blocks)>> \o HeadingsOf(Tail(blocks))
    ELSE HeadingsOf(Tail(blocks))

\* the emitted headings are those of the rule, and no '#' line is a paragraph
HeadingBoundary(blocks) ==
    /\ HeadingsOf(blocks) = MarkedHeadings(content)
    /\ \A i \in 1..Len(blocks) :
        blocks[i].kind = "paragraph" => blocks[i].text # <<>> /\ blocks[i].text[1] # "#"

\* C10: in both passes a trimmed line yields a heading of level n exactly when
\* it begins with exactly n '#' (n in 1..4) and a space, the text being what
\* follows the marker, and every other '#' line yields no block at all.
C10_HeadingBoundary ==
    rpc = "done" => HeadingBoundary(DocxBlocks(doc)) /\ HeadingBoundary(PdfBlocks(story))

-----------------------------------------------------------------------------
(* Properties of the revision loop, stated for Spec *)

\* the body stored under path p, <<"missing">> when nothing is stored there
Stored(p) ==
    IF \E f \in files : f.path = p THEN (CHOOSE f \in files : f.path = p).body
    ELSE <<"missing">>

\* the artifact fields of record r are those of a render of r.paper_content
\* whose files are the ones on storage
Paired(r) ==
    /\ \E o \in DocOutcomes, t \in 0..clock :
        LET d == CreateDocuments(r.paper_content, r.topic, t, o) IN
        r.document_path = d.document_path /\ r.pdf_path = d.pdf_path
    /\ ~IsErrorDescriptor(r.document_path) =>
        Stored(r.document_path) = WordPass(r.paper_content)
    /\ ~IsErrorDescriptor(r.pdf_path) =>
        Stored(r.pdf_path) = PdfPass(r.paper_content)

\* C11: through any sequence of revision rounds the record main holds pairs
\* paper_content with the artifact fields of a render of exactly that content;
\* the record changes only by taking over a whole result (of the run, or of
\* the edit_paper call whose render call was made in the same step), never
\* one field alone.
C11_ContentAndArtifactsTogether ==
    /\ [](current_result.status = "completed" => Paired(current_result))
    /\ [][current_result' # current_result =>
            \/ pc = "report" /\ current_result' = result
            \/ /\ pc = "edit_docs"
               /\ current_result' = edit_result'
               /\ edit_calls'[Len(edit_calls')].svc = "render"
               /\ edit_calls'[Len(edit_calls')].arg.content = current_result'.paper_content]_vars

C11_Witness ==
    /\ rounds = 2 /\ pc = "ask" /\ edit_exit = "return"
    /\ current_result.paper_content # result.paper_content
    /\ current_result.document_path # result.document_path

\* C12: a render never returns a primary path under which an artifact is
\* already stored: renders of the same topic get distinct file names, so no
\* render overwrites an earlier artifact.
C12_RenderPathsDistinct ==
    [][(pc = "edit_docs" /\ ~IsErrorDescriptor(edit_result'.document_path)) =>
        \A f \in files : f.path # edit_result'.document_path]_vars

-----------------------------------------------------------------------------
(* The file name of create_documents alone, over topics around BaseLimit *)

TopicAlphabet == {"a", "7", " ", "-", "_", "!"}

Repeat(c, k) == [i \in 1..k |-> c]

\* topics u c^k v: a free front part, a run of one character that reaches to
\* just below and just past BaseLimit (or is short), and at most one character
\* behind it
TopicTexts ==
    {u \o Repeat(c, k) \o v :
        u \in UNION {[1..n -> TopicAlphabet] : n \in 0..MaxAffix},
        c \in TopicAlphabet,
        k \in (0..MaxOver) \cup ((BaseLimit - MaxAffix - 1)..(BaseLimit + MaxOver)),
        v \in UNION {[1..n -> TopicAlphabet] : n \in 0..1}}

InitName ==
    /\ arg_topic \in TopicTexts
    /\ made_path = <<>>
    /\ rpc = "name"
    /\ content = <<>> /\ doc = <<>> /\ story = <<>>
    /\ ParseIdle
    /\ PipeIdle

\* create_documents up to document_path, in second t
MakeName ==
    /\ rpc = "name"
    /\ \E t \in 0..MaxClock : made_path' = DocxPath(arg_topic, t)
    /\ rpc' = "named"
    /\ UNCHANGED <<arg_topic, content, doc, story, parseVars, pipeVars>>

NextName == MakeName

SpecName == InitName /\ [][NextName]_vars

(* Properties of the file name, stated for SpecName *)

IsKept(c) == c \in Letters \cup Digits \cup {" ", "-", "_"}

\* the base by the rule: the topic without its other characters, spaces as
\* underscores, the first 30 characters of that
RuleBase(topic) ==
    LET kept == SelectSeq(topic, IsKept) IN
    [i \in 1..Min(30, Len(kept)) |-> IF kept[i] = " " THEN "_" ELSE kept[i]]

\* C13: the base of the file name holds only letters, digits, hyphens and
\* underscores, is at most 30 long, and is the topic with every space turned
\* into an underscore and every other character removed, cut to 30: a function
\* of the topic alone, whatever the second of the call, which goes to the
\* timestamp field only.
C13_SanitizedBase ==
    rpc = "named" =>
        /\ \A i \in 1..Len(made_path.base) :
            made_path.base[i] \in Letters \cup Digits \cup {"-", "_"}
        /\ Len(made_path.base) <= 30
        /\ made_path.base = RuleBase(arg_topic)
        /\ made_path.timestamp \in 0..MaxClock
        /\ made_path.ext = ".docx"

C13_Witness ==
    /\ rpc = "named"
    /\ Len(arg_topic) > 30
    /\ Len(made_path.base) = 30
    /\ \E i \in 1..Len(arg_topic) : arg_topic[i] = "!"
    /\ \E i \in 1..Len(arg_topic) : arg_topic[i] = " "
    /\ \E i \in 1..30 : made_path.base[i] = "_"

-----------------------------------------------------------------------------
(* Properties of the rendering passes, stated for SpecRender (continued) *)

\* what a line stands for by the rule: nothing when blank after trimming, its
\* heading when it carries one of the four markers, a paragraph when it does
\* not begin with '#', nothing otherwise
RuleLine(raw) ==
    LET line == Strip(raw) IN
    IF line = <<>> THEN <<>>
    ELSE IF MarkedHeading(line) # <<>> THEN MarkedHeading(line)
    ELSE IF line[1] # "#" THEN <<Block("paragraph", 0, line)>>
    ELSE <<>>

BlankLines(text) ==
    LET lines == SplitLines(text) IN {i \in 1..Len(lines) : Strip(lines[i]) = <<>>}

\* C14: the Word document holds, in line order, one heading per line with a
\* recognized marker and one paragraph per line that, trimmed, is non-blank and
\* does not begin with '#'; a blank line adds no element and each paragraph is
\* one line's text, never two lines joined; the PDF story holds one spacer of
\* height 12 per blank line.
C14_OneBlockPerLine ==
    rpc = "done" =>
        /\ LET lines == SplitLines(content) IN
           DocxBlocks(doc) = Flatten([i \in 1..Len(lines) |-> RuleLine(lines[i])])
        /\ Cardinality({i \in 1..Len(story) : story[i].el = "Spacer" /\ story[i].height = 12})
            = Cardinality(BlankLines(content))

C14_Witness ==
    /\ rpc = "done"
    /\ Len(SplitLines(content)) = 3
    /\ BlankLines(content) = {2}
    /\ Len(doc) = 2 /\ doc[1].el = "heading" /\ doc[2].el = "paragraph"

-----------------------------------------------------------------------------
(* The classification of lines alone: classify, rebuild, classify again *)

BlankBlock == Block("blank", 0, <<>>)

\* the branch of the Word loop a line takes, as a block: blank (the loop's
\* `continue`), heading, paragraph, or no block for a dropped '#' line
ClassifyLine(raw) ==
    IF Strip(raw) = <<>> THEN <<BlankBlock>> ELSE DocxBlocks(WordLine(raw))

ClassifyLines(text) ==
    LET lines == SplitLines(text) IN
    Flatten([i \in 1..Len(lines) |-> ClassifyLine(lines[i])])

\* the line a block is rebuilt as: its marker reapplied before its text
BlockLine(b) ==
    IF b.kind = "heading" THEN Repeat("#", b.level) \o <<" ">> \o b.text
    ELSE b.text

RECURSIVE JoinLines(_)
\* "\n".join(lines)
JoinLines(lines) ==
    IF lines = <<>> THEN <<>>
    ELSE IF Len(lines) = 1 THEN Head(lines)
    ELSE Head(lines) \o <<"\n">> \o JoinLines(Tail(lines))

Reconstruct(bs) == JoinLines([i \in 1..Len(bs) |-> BlockLine(bs[i])])

InitParse ==
    /\ content \in Texts
    /\ parsed = <<>>
    /\ rebuilt = <<>>
    /\ reparsed = <<>>
    /\ rpc = "classify"
    /\ doc = <<>> /\ story = <<>>
    /\ NameIdle
    /\ PipeIdle

Classify ==
    /\ rpc = "classify"
    /\ parsed' = ClassifyLines(content)
    /\ rpc' = "rebuild"
    /\ UNCHANGED <<content, doc, story, rebuilt, reparsed, nameVars, pipeVars>>

Rebuild ==
    /\ rpc = "rebuild"
    /\ rebuilt' = Reconstruct(parsed)
    /\ rpc' = "reclassify"
    /\ UNCHANGED <<content, doc, story, parsed, reparsed, nameVars, pipeVars>>

Reclassify ==
    /\ rpc = "reclassify"
    /\ reparsed' = ClassifyLines(rebuilt)
    /\ rpc' = "parsed"
    /\ UNCHANGED <<content, doc, story, parsed, rebuilt, nameVars, pipeVars>>

NextParse == Classify \/ Rebuild \/ Reclassify

SpecParse == InitParse /\ [][NextParse]_vars

(* Properties of the round trip, stated for SpecParse *)

\* C15 as stated: for every text, classifying its lines, rebuilding a text
\* from the blocks and classifying that text yields the same blocks.
C15_ReparseSameBlocks ==
    rpc = "parsed" => reparsed = parsed

\* C15: for every text whose lines yield at least one block, classifying its
\* lines, rebuilding a text from the blocks with the markers reapplied and
\* classifying that text yields the same blocks.
C15_ReparseSameBlocksNonEmpty ==
    (rpc = "parsed" /\ parsed # <<>>) => reparsed = parsed

C15_Witness ==
    /\ rpc = "parsed"
    /\ parsed # <<>>
    /\ rebuilt # content
    /\ \E i \in 1..Len(parsed) : parsed[i].kind = "heading"
    /\ \E i \in 1..Len(parsed) : parsed[i].kind = "blank"

-----------------------------------------------------------------------------
(* Properties of the driver, stated for Spec *)

\* C16: once the run's result has status "failed" no revision round is ever
\* started: main never prompts, the generator and the renderer are not called
\* again, nothing is written, and the only step left is the one that ends the
\* driver.
C16_FailedIsTerminal ==
    /\ [](result.status = "failed" =>
            /\ pc \in {"report", "done"}
            /\ rounds = 0
            /\ edit_calls = <<>>
            /\ make_changes = "none"
            /\ current_result.status = "none")
    /\ [][result.status = "failed" =>
            /\ run_calls' = run_calls
            /\ edit_calls' = edit_calls
            /\ files' = files
            /\ result' = result
            /\ pc = "report" => pc' = "done"]_vars

C16_Witness == result.status = "failed" /\ pc = "done"

\* the services the last edit_paper call has called, in call order
EditSvcs == [i \in 1..Len(edit_calls) |-> edit_calls[i].svc]

\* C17 as stated: every edit_paper call that has ended called the generator
\* once and then the renderer once.
C17_GeneratorThenRenderer ==
    edit_exit \in {"return", "raise"} => EditSvcs = <<"llm", "render">>

\* C17: a revision round never calls the search: edit_paper calls the
\* generator once, with the prompt built from the held content and the change
\* request, and then, when that call returns, the renderer once with the
\* generated content; when the generator call raises, the renderer is not
\* called. No round adds a call to those of create_research_paper.
C17_RevisionBypassesResearch ==
    /\ [](/\ \A i \in 1..Len(edit_calls) : edit_calls[i].svc # "tavily"
          /\ EditSvcs = SubSeq(<<"llm", "render">>, 1, Len(edit_calls))
          /\ pc = "edit_llm" => edit_calls = <<>>
          /\ pc = "edit_docs" =>
                edit_calls = <<Call("llm", EditingPrompt(change_request,
                                                         current_result.paper_content), "ok")>>
          /\ edit_exit = "return" =>
                /\ EditSvcs = <<"llm", "render">>
                /\ edit_calls[1].outcome = "ok"
                /\ edit_calls[1].arg.template = "edit"
                /\ edit_calls[2].arg = [content |-> edit_result.paper_content,
                                        topic |-> state.topic]
          /\ edit_exit = "raise" => EditSvcs = <<"llm">> /\ edit_calls[1].outcome = "fail")
    /\ [][(pc \in {"ask", "change", "edit_llm", "edit_docs"}) => (run_calls' = run_calls)]_vars

C17_Witness == edit_exit = "return" /\ rounds = 2 /\ pc = "ask"

\* C18: a revision round that raises leaves the held result, the last edit
\* result and the storage unchanged and returns to the y/n prompt; the held
\* result is always the result of the last round that returned (of the run,
\* when none has), and the next round's prompt is built from its content.
C18_RaisingRoundChangesNothing ==
    /\ [][(pc = "edit_llm" /\ edit_exit' = "raise") =>
            /\ current_result' = current_result
            /\ edit_result' = edit_result
            /\ files' = files
            /\ pc' = "ask"]_vars
    /\ [](pc \in {"ask", "change", "edit_llm", "edit_docs"} =>
            current_result = IF edit_result.status = "none" THEN result ELSE edit_result)
    /\ [](pc = "edit_docs" =>
            edit_calls[1].arg.current_content = current_result.paper_content)

C18_Witness ==
    /\ pc = "edit_docs" /\ rounds = 2
    /\ edit_result.status = "none"
    /\ edit_calls[1].arg.current_content = result.paper_content

\* C19: every return of create_research_paper has status "completed" or
\* "failed", never "partial": "completed" exactly when the three stages ran
\* and the marker is documents_complete, "failed" exactly when a stage
\* raised, and a "completed" result has the fields paper_content,
\* document_path and pdf_path.
C19_NeverPartial ==
    crp_exit = "return" =>
        /\ result.status \in {"completed", "failed"}
        /\ result.status = "completed" <=>
              (StagesRun = Stages /\ state.step = "documents_complete")
        /\ result.status = "failed" <=> RaisedInRun # {}
        /\ result.status = "completed" =>
              /\ {"paper_content", "document_path", "pdf_path"} \subseteq DOMAIN result
              /\ result.paper_content = state.paper_content
              /\ result.document_path = state.document_path
              /\ result.pdf_path = state.pdf_path

C19_Witness ==
    /\ crp_exit = "return" /\ result.status = "completed"
    /\ StagesRun = Stages /\ "pdf_path" \in DOMAIN result

\* C20: after a completed run the loop is left only by the answer 'n' at
\* the y/n prompt; any other answer, an empty change request, a revision
\* that raised and a revision that returned all come back to the prompt;
\* and when every call returns and the user eventually answers 'n', every
\* iteration comes back to the prompt and the driver ends.
InLoop == pc \in {"ask", "change", "edit_llm", "edit_docs"}

C20_LoopEndsOnlyOnNo ==
    /\ [][(InLoop /\ pc' = "done") => (pc = "ask" /\ make_changes' = "n")]_vars
    /\ [][(pc = "ask" /\ pc' # pc) => (make_changes' \in {"y", "n"})]_vars
    /\ [][(pc = "ask" /\ make_changes' = "other") => (pc' = "ask")]_vars
    /\ [][(pc = "ask" /\ make_changes' = "y") => (pc' = "change")]_vars
    /\ [][(pc = "change" /\ change_request' = <<>>) => (pc' = "ask")]_vars
    /\ [][(pc = "edit_llm" /\ edit_exit' = "raise") => (pc' = "ask")]_vars
    /\ [][(pc = "edit_docs" /\ pc' # pc) => (pc' = "ask" /\ edit_exit' = "return")]_vars
    /\ [](pc = "done" /\ current_result # NoResult => make_changes = "n")
    /\ (pc \in {"change", "edit_llm", "edit_docs"}) ~> (pc = "ask")
    /\ (pc = "ask") ~> (pc = "done" /\ make_changes = "n")
    /\ <>(pc = "done")

C20_Witness ==
    /\ pc = "done" /\ make_changes = "n"
    /\ rounds = 2 /\ edit_exit = "raise" /\ edit_result.status = "completed"

=============================================================================
